---- MODULE Spec2Model ----
(***************************************************************************)
(* Store-credit reservation / settlement service (src/index.js).           *)
(*                                                                         *)
(* The Express handlers are async functions: every `await` on the          *)
(* database (Supabase) or on Shopify (fetch) is a point where other        *)
(* requests run.  Each handler is therefore modelled as a sequence of      *)
(* atomic steps, one per awaited call; the synchronous code between two    *)
(* awaits belongs to the step of the earlier await, and the synchronous    *)
(* prefix of a handler (validation) belongs to its first step.             *)
(*                                                                         *)
(* supabase-js never throws on a failed query: it resolves to              *)
(* {data: null, error}.  index.js ignores `error` on every write, so a     *)
(* failed write is a silent no-op.  fetch() failing or answering !ok is    *)
(* handled as the code handles it.                                         *)
(***************************************************************************)
EXTENDS Integers, Sequences, FiniteSets

\* ------------------------------------------------------------------ bounds
MaxProcs == 2        \* request slots that can be in flight at once
MaxIssued == 2       \* discount codes generated in one behaviour
MaxAmount == 1       \* largest creditAmount a client asks for
MaxOrders == 1       \* distinct Shopify orders whose webhook is delivered
MaxFailures == 1     \* database / Shopify calls that fail in one behaviour
MaxCredits == 2      \* largest opening balance of an account
MaxTime == 30        \* hours of wall-clock time observed
TickHours == 25      \* granularity of the wall clock, in hours

\* ------------------------------------------------------- program constants
SweepAgeHours == 24  \* twentyFourHoursAgo.getHours() - 24

\* ------------------------------------------------------------------ values
Accounts == {"u1", "u2"}       \* rows of table profiles
GhostUser == "u0"              \* a userId with no profiles row
NoUser == ""                   \* userId missing from the request body
\* Opening balances: u1 has credit, u2 has none.
OpeningCredits ==
  {[a \in Accounts |-> IF a = "u1" THEN n ELSE 0] : n \in 1..MaxCredits}

NoTime == -1                   \* SQL NULL in a timestamp column
NoOrder == <<>>                \* SQL NULL in order_id / order_number
NoRule == 0                    \* priceRuleId missing from the request body
NoCode == [prefix |-> "", serial |-> 0]  \* a code that is missing / undefined

\* `CREDIT-${Date.now()}-${random}`: the prefix plus a part that is unique
\* per generated code (the serial stands for the timestamp-random suffix).
MakeCreditCode(n) == [prefix |-> "CREDIT-", serial |-> n]
PromoCode == [prefix |-> "PROMO-", serial |-> 1]

\* dc.code && dc.code.startsWith('CREDIT-')
IsCreditCode(c) == c # NoCode /\ c.prefix = "CREDIT-"

\* order.id.toString(): a number turned into text
toString(n) == <<"str", n>>

\* order_number of the order with a given id (Shopify assigns both)
OrderNumber(id) == 1000 + id

NullRow == [id |-> 0]          \* `data: null` of a select(...).single()

Idle == [op |-> "none", pc |-> "idle"]
Closed == [op |-> "none", pc |-> "closed"]   \* a slot that serves nothing
NoResponse == [op |-> "none"]

VARIABLES
  credits,        \* profiles.credits, per account
  opening,        \* the balances at start-up (never written)
  transactions,   \* table credit_transactions, in insertion order
  priceRules,     \* Shopify: ids of the price rules that exist
  shopCodes,      \* Shopify: discount codes that exist
  issued,         \* number of discount codes generated so far
  now,            \* wall clock, hours
  h,              \* per request slot: the handler running in it
  out,            \* the response sent by the last step, if it sent one
  faultBudget,    \* database / Shopify calls that may still fail
  debits          \* per reservation id: balance writes Settle made for it

vars == <<credits, opening, transactions, priceRules, shopCodes, issued, now, h,
          out, faultBudget, debits>>

\* Outcomes of a call that can fail: TRUE = the call succeeded.
Outcomes == IF faultBudget > 0 THEN {TRUE, FALSE} ELSE {TRUE}
Fail(ok) == IF ok THEN faultBudget ELSE faultBudget - 1

Procs == 1..MaxProcs

InFlight(p) == h[p].pc \notin {"idle", "closed"}
\* `out` holds the response a step has just sent, until Deliver hands it to
\* the client; the next step is taken after that.
Sent == out # NoResponse

\* A request is served in the lowest free slot.
CanStart(p) == ~Sent /\ h[p].pc = "idle" /\ \A q \in 1..(p - 1) : InFlight(q)
\* Handler `o` in slot p is about to run its step `at`.
At(p, o, at) == ~Sent /\ h[p].op = o /\ h[p].pc = at

Response(o, st, m) == [op |-> o, status |-> st, message |-> m]

RowIds == 1..Len(transactions)

\* The state after start-up: the accounts exist, no reservation was made.
Start(slots, budget) ==
  /\ credits \in OpeningCredits
  /\ opening = credits
  /\ transactions = <<>>
  /\ priceRules = {}
  /\ shopCodes = {}
  /\ issued = 0
  /\ now = 0
  /\ h = [p \in Procs |-> IF p <= slots THEN Idle ELSE Closed]
  /\ out = NoResponse
  /\ faultBudget = budget
  /\ debits = <<>>

\* Concurrent requests, every database and Shopify call succeeds.
Init == Start(MaxProcs, 0)
\* One request at a time, calls may fail.
InitFaults == Start(1, MaxFailures)
\* One request at a time, every call succeeds.
InitSerial == Start(1, 0)

\* =========================================================== apply-credits
\* Request bodies the clients send: {creditAmount, userId, cartItems}.
Amounts == 0..MaxAmount
ReserveRequests ==
  [userId : Accounts, creditAmount : Amounts, cartItems : {"items"}]
    \cup {[userId |-> "u1", creditAmount |-> 1, cartItems |-> "empty"],
          [userId |-> GhostUser, creditAmount |-> 1, cartItems |-> "items"],
          [userId |-> NoUser, creditAmount |-> 1, cartItems |-> "items"],
          [userId |-> "u1", creditAmount |-> 1, cartItems |-> "missing"]}

\* The service takes one request at a time (all slots but one are closed).
OneAtATime == \E p \in Procs : h[p] = Closed

\* A request for a negative amount; sent only to the service that takes one
\* request at a time.
NegativeRequests ==
  IF OneAtATime
    THEN {[userId |-> "u1", creditAmount |-> -1, cartItems |-> "items"]}
    ELSE {}

\* !creditAmount || !userId || !cartItems  (an empty array is truthy)
ReserveMissingFields(req) ==
  req.creditAmount = 0 \/ req.userId = NoUser \/ req.cartItems = "missing"

\* Sum of the amounts of the pending rows, among the first n rows, that
\* belong to one of `users`.
RECURSIVE PendingSum(_, _)
PendingSum(users, n) ==
  IF n = 0 THEN 0
  ELSE PendingSum(users, n - 1)
         + (IF /\ transactions[n].user_id \in users
               /\ transactions[n].status = "pending"
              THEN transactions[n].amount ELSE 0)

\* The check as a hard check: what is already reserved is not available.
InsufficientCountingPending(profileCredits, creditAmount) ==
  profileCredits - PendingSum(Accounts, Len(transactions)) < creditAmount

\* The check of a balance one short of the amount passes.
InsufficientOffByOne(profileCredits, creditAmount) ==
  profileCredits + 1 < creditAmount

\* profile.credits < creditAmount
Insufficient(profileCredits, creditAmount) == profileCredits < creditAmount

\* Outcomes of lines 80-147: which of the three awaited calls fails, if any.
ReserveOutcomes ==
  IF faultBudget > 0
    THEN {"ok", "price_rule_fails", "discount_code_fails", "insert_fails"}
    ELSE {"ok"}

\* The insert without its discount_code column.
NewRowWithoutCode(id, userId, amount, code, rule, t) ==
  [id |-> id, user_id |-> userId, amount |-> amount, status |-> "pending",
   discount_code |-> NoCode, price_rule_id |-> toString(rule),
   created_at |-> t, completed_at |-> NoTime, cancelled_at |-> NoTime,
   order_id |-> NoOrder, order_number |-> NoOrder]

NewRow(id, userId, amount, code, rule, t) ==
  [id |-> id, user_id |-> userId, amount |-> amount, status |-> "pending",
   discount_code |-> code, price_rule_id |-> toString(rule),
   created_at |-> t, completed_at |-> NoTime, cancelled_at |-> NoTime,
   order_id |-> NoOrder, order_number |-> NoOrder]

\* The insert issued before the two Shopify calls.
RowInsertedBeforeIssuer(outcome) == outcome # "insert_fails"

\* lines 106-147: the insert is reached only after both Shopify calls
\* succeeded (each throws otherwise), and writes a row unless it fails itself.
RowInserted(outcome) == outcome = "ok"

\* lines 80-164: generate the code, POST price_rules.json, POST
\* discount_codes.json, insert the pending row, answer.
\*   - price rule or discount code not created: throw, caught, 500
\*   - insert fails: its error is ignored, 200 as if the row existed
ReserveIssue(userId, creditAmount, profileCredits) ==
  /\ issued < MaxIssued
  /\ issued' = issued + 1
  /\ \E outcome \in ReserveOutcomes :
       LET discountCode == MakeCreditCode(issued + 1)
           priceRuleId == issued + 1
       IN  /\ faultBudget' = Fail(outcome = "ok")
           /\ priceRules' = IF outcome = "price_rule_fails" THEN priceRules
                            ELSE priceRules \cup {priceRuleId}
           /\ shopCodes' =
                IF outcome \in {"price_rule_fails", "discount_code_fails"}
                  THEN shopCodes
                  ELSE shopCodes \cup {discountCode}
           /\ IF RowInserted(outcome)
                THEN /\ transactions' = Append(transactions,
                           NewRow(Len(transactions) + 1, userId, creditAmount,
                                  discountCode, priceRuleId, now))
                     /\ debits' = Append(debits, 0)
                ELSE UNCHANGED <<transactions, debits>>
           /\ out' =
                IF outcome \in {"price_rule_fails", "discount_code_fails"}
                  THEN Response("reserve", 500, "Failed to apply credits")
                  ELSE [op |-> "reserve", status |-> 200,
                        message |-> "success",
                        discountCode |-> discountCode,
                        discountAmount |-> creditAmount,
                        newBalance |-> profileCredits,
                        priceRuleId |-> priceRuleId]

\* lines 44-165, the whole handler in one step.  Between its profile read and
\* its insert the handler reads and writes nothing another request can touch:
\* the row's code is unknown to every client and to Shopify's checkout until
\* the answer is sent, and the balance is not written here.  The read is
\* therefore taken at the moment of the insert.
Reserve(p, req) ==
  /\ CanStart(p)
  /\ IF ReserveMissingFields(req)
       THEN /\ out' = Response("reserve", 400, "Missing required fields")
            /\ UNCHANGED <<issued, faultBudget, priceRules, shopCodes,
                           transactions, debits>>
     ELSE IF req.userId \notin Accounts
       THEN /\ out' = Response("reserve", 404, "User not found")
            /\ UNCHANGED <<issued, faultBudget, priceRules, shopCodes,
                           transactions, debits>>
     ELSE IF Insufficient(credits[req.userId], req.creditAmount)
       THEN /\ out' = [op |-> "reserve", status |-> 400,
                       message |-> "Insufficient credits",
                       available |-> credits[req.userId],
                       requested |-> req.creditAmount]
            /\ UNCHANGED <<issued, faultBudget, priceRules, shopCodes,
                           transactions, debits>>
     ELSE ReserveIssue(req.userId, req.creditAmount, credits[req.userId])
  /\ UNCHANGED <<credits, opening, now, h>>

\* ============================================================ order-webhook
\* The webhook request: the bytes of the body and the signature header.
Secret == "SHOPIFY_WEBHOOK_SECRET"
NoHeader == <<>>

\* One order has many JSON texts (whitespace, escapes, number formats).  A
\* body is the order it denotes and the way it is written: "compact" is the
\* text JSON.stringify prints, "other" is any other text of the same order.
Forms == {"compact", "other"}
Body(o, f) == [order |-> o, form |-> f]

\* app.use(express.json()): req.body is the order the bytes denote
JSONparse(body) == body.order

\* JSON.stringify(req.body): the order printed again, in JSON.stringify's way
JSONstringify(o) == Body(o, "compact")

\* crypto.createHmac('sha256', key).update(rawBody).digest('base64'): a value
\* determined by the key and the exact body, different for different inputs.
Hmac(key, body) == <<"hmac-sha256", key, body>>

CreditCodes == {MakeCreditCode(n) : n \in 1..MaxIssued}
CodeLists == {<<>>, <<PromoCode>>, <<NoCode>>}
               \cup {<<c>> : c \in CreditCodes}
               \cup {<<PromoCode, c>> : c \in CreditCodes}
Orders == [id : 1..MaxOrders, discount_codes : CodeLists]
\* Orders that also arrive from senders other than Shopify.
Unsigned == {o \in Orders : o.discount_codes \in {<<>>, <<MakeCreditCode(1)>>}}
\* Deliveries: every order in every form, signed by Shopify over the bytes it
\* sends; a signed compact body resent with its bytes altered and Shopify's
\* signature kept; bodies signed with another key; bodies with no signature.
WebhookRequests ==
  {[rawBody |-> Body(o, f), hmacHeader |-> Hmac(Secret, Body(o, f))] :
     o \in Orders, f \in Forms}
    \cup {[rawBody |-> Body(o, "other"),
           hmacHeader |-> Hmac(Secret, Body(o, "compact"))] : o \in Unsigned}
    \cup {[rawBody |-> Body(o, "compact"),
           hmacHeader |-> Hmac("forged", Body(o, "compact"))] : o \in Unsigned}
    \cup {[rawBody |-> Body(o, "compact"), hmacHeader |-> NoHeader] :
            o \in Unsigned}

\* discountCodes.find(dc => dc.code && dc.code.startsWith('CREDIT-'))
FindCreditDiscount(codes) ==
  LET hits == {i \in 1..Len(codes) : IsCreditCode(codes[i])}
  IN  IF hits = {} THEN NoCode
      ELSE codes[CHOOSE i \in hits : \A j \in hits : i <= j]

\* The lookup without its .eq('status', 'pending') filter.
SingleAnyStatus(code) ==
  LET hits == {i \in RowIds : transactions[i].discount_code = code}
  IN  IF Cardinality(hits) = 1 THEN transactions[CHOOSE i \in hits : TRUE]
      ELSE NullRow

\* select('*').eq('discount_code', code).eq('status', 'pending').single():
\* the row when exactly one matches, otherwise data is null
SinglePending(code) ==
  LET hits == {i \in RowIds : /\ transactions[i].discount_code = code
                              /\ transactions[i].status = "pending"}
  IN  IF Cardinality(hits) = 1 THEN transactions[CHOOSE i \in hits : TRUE]
      ELSE NullRow

\* The answer of the webhook, with the discount code the event was about.
SettleResponse(st, m, code) ==
  [op |-> "settle", status |-> st, message |-> m, discountCode |-> code]

\* lines 241-293: signature check, code extraction, lookup of the pending row
SettleFind(p, body, hmacHeader) ==
  /\ CanStart(p)
  /\ LET order == JSONparse(body)
         rawBody == JSONstringify(order)
         hash == Hmac(Secret, rawBody)
     IN
     IF hash # hmacHeader
       THEN /\ out' = SettleResponse(401, "Unauthorized", NoCode)
            /\ UNCHANGED h
     ELSE IF FindCreditDiscount(order.discount_codes) = NoCode
       THEN /\ out' = SettleResponse(200, "No credits used", NoCode)
            /\ UNCHANGED h
     ELSE LET discountCode == FindCreditDiscount(order.discount_codes)
              transaction == SinglePending(discountCode)
          IN  IF transaction.id = 0
                THEN /\ out' = SettleResponse(200,
                                 "Transaction already processed", discountCode)
                     /\ UNCHANGED h
                ELSE /\ out' = NoResponse
                     /\ h' = [h EXCEPT ![p] =
                               [op |-> "settle", pc |-> "profile",
                                order |-> order, transaction |-> transaction,
                                newBalance |-> 0]]
  /\ UNCHANGED <<credits, opening, transactions, priceRules, shopCodes, issued,
                 now, faultBudget, debits>>

\* lines 295-303: read the owner's balance, compute the new one
SettleReadProfile(p) ==
  /\ At(p, "settle", "profile")
  /\ \E ok \in Outcomes :
       /\ faultBudget' = Fail(ok)
       /\ IF ok /\ h[p].transaction.user_id \in Accounts
            THEN h' = [h EXCEPT
                   ![p].pc = "debit",
                   ![p].newBalance = credits[h[p].transaction.user_id]
                                       - h[p].transaction.amount]
            ELSE h' = [h EXCEPT ![p].pc = "finalize"]
  /\ out' = NoResponse
  /\ UNCHANGED <<credits, opening, transactions, priceRules, shopCodes, issued,
                 now, debits>>

\* lines 304-307: write the new balance (the write's error is ignored)
SettleDebit(p) ==
  /\ At(p, "settle", "debit")
  /\ \E ok \in Outcomes :
       /\ faultBudget' = Fail(ok)
       /\ IF ok
            THEN /\ credits' = [credits EXCEPT
                      ![h[p].transaction.user_id] = h[p].newBalance]
                 /\ debits' = [debits EXCEPT ![h[p].transaction.id] = @ + 1]
            ELSE UNCHANGED <<credits, opening, debits>>
  /\ h' = [h EXCEPT ![p].pc = "finalize"]
  /\ out' = NoResponse
  /\ UNCHANGED <<opening, transactions, priceRules, shopCodes, issued, now>>

\* lines 310-327: mark the row completed by id (error ignored), answer 200
SettleFinalize(p) ==
  /\ At(p, "settle", "finalize")
  /\ \E ok \in Outcomes :
       /\ faultBudget' = Fail(ok)
       /\ IF ok
            THEN transactions' = [transactions EXCEPT
                   ![h[p].transaction.id].status = "completed",
                   ![h[p].transaction.id].completed_at = now,
                   ![h[p].transaction.id].order_id = toString(h[p].order.id),
                   ![h[p].transaction.id].order_number =
                                               OrderNumber(h[p].order.id)]
            ELSE UNCHANGED transactions
  /\ h' = [h EXCEPT ![p] = Idle]
  /\ out' = [op |-> "settle", status |-> 200,
             message |-> "Credits finalized and deducted",
             discountCode |-> h[p].transaction.discount_code,
             orderId |-> h[p].order.id]
  /\ UNCHANGED <<credits, opening, priceRules, shopCodes, issued, now, debits>>

\* =========================================================== cancel-credits
\* Request bodies the clients send: {userId, discountCode, priceRuleId}.
\* A client that names a price rule names the one returned with the code.
CancelRequests ==
  {[userId |-> u, discountCode |-> c, priceRuleId |-> r] :
     u \in Accounts, c \in CreditCodes, r \in {NoRule}}
    \cup {[userId |-> u, discountCode |-> c, priceRuleId |-> c.serial] :
            u \in Accounts, c \in CreditCodes}
    \cup {[userId |-> NoUser, discountCode |-> MakeCreditCode(1),
           priceRuleId |-> NoRule],
          [userId |-> "u1", discountCode |-> NoCode, priceRuleId |-> NoRule]}

\* The lookup without its .eq('user_id', userId) filter.
SinglePendingAnyOwner(userId, code) ==
  LET hits == {i \in RowIds : /\ transactions[i].discount_code = code
                              /\ transactions[i].status = "pending"}
  IN  IF Cardinality(hits) = 1 THEN transactions[CHOOSE i \in hits : TRUE]
      ELSE NullRow

\* select('*').eq('user_id', u).eq('discount_code', c).eq('status', 'pending')
\* .single()
SinglePendingOf(userId, code) ==
  LET hits == {i \in RowIds : /\ transactions[i].user_id = userId
                              /\ transactions[i].discount_code = code
                              /\ transactions[i].status = "pending"}
  IN  IF Cardinality(hits) = 1 THEN transactions[CHOOSE i \in hits : TRUE]
      ELSE NullRow

\* lines 170-192: validation and lookup of the pending row
CancelFind(p, req) ==
  /\ CanStart(p)
  /\ IF req.userId = NoUser \/ req.discountCode = NoCode
       THEN /\ out' = Response("cancel", 400, "Missing userId or discountCode")
            /\ UNCHANGED h
     ELSE LET transaction == SinglePendingOf(req.userId, req.discountCode)
          IN  IF transaction.id = 0
                THEN /\ out' = Response("cancel", 404, "Transaction not found")
                     /\ UNCHANGED h
                ELSE /\ out' = NoResponse
                     /\ h' = [h EXCEPT ![p] =
                               [op |-> "cancel", pc |-> "update",
                                transaction |-> transaction,
                                priceRuleId |-> req.priceRuleId]]
  /\ UNCHANGED <<credits, opening, transactions, priceRules, shopCodes, issued,
                 now, faultBudget, debits>>

\* Outcomes of lines 197-221: which of the two awaited calls fails, if any.
CancelOutcomes ==
  IF faultBudget > 0 THEN {"ok", "update_fails", "delete_fails"}
                            ELSE {"ok"}

\* The answer if a failed DELETE were reported to the caller.
CancelAnswerPropagating(outcome) ==
  IF outcome = "delete_fails"
    THEN Response("cancel", 502, "Failed to delete price rule")
    ELSE Response("cancel", 500, "Failed to cancel credits")

\* lines 207-235: a rejected DELETE is caught and logged (218-220), its HTTP
\* status is never read; the answer is built the same way whatever happened.
CancelAnswer(outcome) == Response("cancel", 500, "Failed to cancel credits")

\* The step as api/cancel-credits.js does it: the amount is credited back.
CancelUpdateRestoring(p) ==
  /\ At(p, "cancel", "update")
  /\ faultBudget' = faultBudget
  /\ credits' = [credits EXCEPT ![h[p].transaction.user_id] =
                                  @ + h[p].transaction.amount]
  /\ transactions' = [transactions EXCEPT
       ![h[p].transaction.id].status = "cancelled",
       ![h[p].transaction.id].cancelled_at = now]
  /\ h' = [h EXCEPT ![p] = Idle]
  /\ out' = Response("cancel", 500, "Failed to cancel credits")
  /\ UNCHANGED <<opening, priceRules, shopCodes, issued, now, debits>>

\* lines 197-235: mark the row cancelled by id (error ignored); if the request
\* named a price rule, DELETE price_rules/<id>.json (a failure is only logged;
\* Shopify deletes a price rule together with its discount codes); answer.
\* Building the success body reads `restoredBalance`, which is declared
\* nowhere in index.js: a ReferenceError, caught, answered with 500.
CancelUpdate(p) ==
  /\ At(p, "cancel", "update")
  /\ \E outcome \in CancelOutcomes :
       /\ outcome = "delete_fails" => h[p].priceRuleId # NoRule
       /\ faultBudget' = Fail(outcome = "ok")
       /\ IF outcome # "update_fails"
            THEN transactions' = [transactions EXCEPT
                   ![h[p].transaction.id].status = "cancelled",
                   ![h[p].transaction.id].cancelled_at = now]
            ELSE UNCHANGED transactions
       /\ IF h[p].priceRuleId # NoRule /\ outcome # "delete_fails"
            THEN /\ priceRules' = priceRules \ {h[p].priceRuleId}
                 /\ shopCodes' = {c \in shopCodes :
                                    c.serial # h[p].priceRuleId}
            ELSE UNCHANGED <<priceRules, shopCodes>>
       /\ out' = CancelAnswer(outcome)
  /\ h' = [h EXCEPT ![p] = Idle]
  /\ UNCHANGED <<credits, opening, issued, now, debits>>

\* ========================================================== cleanup-pending
\* The filter without its .lt('created_at', threshold).
AllPending(threshold) ==
  {i \in RowIds : transactions[i].status = "pending"}

\* The filter without its .eq('status', 'pending').
OldAnyStatus(threshold) ==
  {i \in RowIds : transactions[i].created_at < threshold}

\* The filter with .gt in place of .lt: the rows younger than the threshold.
YoungPending(threshold) ==
  {i \in RowIds : /\ transactions[i].status = "pending"
                  /\ transactions[i].created_at > threshold}

\* .eq('status', 'pending').lt('created_at', threshold)
OldPending(threshold) ==
  {i \in RowIds : /\ transactions[i].status = "pending"
                  /\ transactions[i].created_at < threshold}

SweepResponse(m, n) ==
  [op |-> "sweep", status |-> 200, message |-> m, transactions |-> n]

\* lines 341-353, 375-379: compute the threshold, select the old pending rows
SweepSelect(p) ==
  /\ CanStart(p)
  /\ LET twentyFourHoursAgo == now - SweepAgeHours
         oldTransactions == OldPending(twentyFourHoursAgo)
     IN  IF oldTransactions # {}
           THEN /\ out' = NoResponse
                /\ h' = [h EXCEPT ![p] =
                          [op |-> "sweep", pc |-> "update",
                           twentyFourHoursAgo |-> twentyFourHoursAgo,
                           length |-> Cardinality(oldTransactions)]]
           ELSE /\ out' = SweepResponse(
                            "No old pending transactions to clean up", 0)
                /\ UNCHANGED h
  /\ UNCHANGED <<credits, opening, transactions, priceRules, shopCodes, issued,
                 now, faultBudget, debits>>

\* lines 355-372: cancel every row that is still pending and old, answer with
\* the number of rows selected earlier
SweepUpdate(p) ==
  /\ At(p, "sweep", "update")
  /\ \E ok \in Outcomes :
       /\ faultBudget' = Fail(ok)
       /\ IF ok
            THEN transactions' = [i \in RowIds |->
                   IF i \in OldPending(h[p].twentyFourHoursAgo)
                     THEN [transactions[i] EXCEPT !.status = "cancelled",
                                                  !.cancelled_at = now]
                     ELSE transactions[i]]
            ELSE UNCHANGED transactions
  /\ h' = [h EXCEPT ![p] = Idle]
  /\ out' = SweepResponse("Cancelled abandoned reservations", h[p].length)
  /\ UNCHANGED <<credits, opening, priceRules, shopCodes, issued, now, debits>>

\* ==================================================================== clock
\* Requests last milliseconds and the clock counts hours: time passes between
\* requests.
Tick ==
  /\ ~Sent
  /\ \A p \in Procs : ~InFlight(p)
  /\ now + TickHours <= MaxTime
  /\ now' = now + TickHours
  /\ UNCHANGED <<credits, opening, transactions, priceRules, shopCodes, issued,
                 h, out, faultBudget, debits>>

\* res.status(...).json(...): the response reaches the client.
Deliver ==
  /\ Sent
  /\ out' = NoResponse
  /\ UNCHANGED <<credits, opening, transactions, priceRules, shopCodes, issued,
                 now, h, faultBudget, debits>>

Next ==
  \/ \E p \in Procs :
       \/ \E req \in ReserveRequests \cup NegativeRequests : Reserve(p, req)
       \/ \E req \in WebhookRequests :
               SettleFind(p, req.rawBody, req.hmacHeader)
       \/ SettleReadProfile(p)
       \/ SettleDebit(p)
       \/ SettleFinalize(p)
       \/ \E req \in CancelRequests : CancelFind(p, req)
       \/ CancelUpdate(p)
       \/ SweepSelect(p)
       \/ SweepUpdate(p)
  \/ Tick
  \/ Deliver

Spec == Init /\ [][Next]_vars
SpecFaults == InitFaults /\ [][Next]_vars
SpecSerial == InitSerial /\ [][Next]_vars

\* The service with a sweeper: a handler that has started runs to its answer
\* (Node runs every continuation whose awaited call has returned), and the
\* clock and cleanup-pending get their turn again and again between the
\* other requests.  A request starts only between two others, so "again and
\* again" is strong fairness for Tick and SweepSelect.
Fairness ==
  /\ \A p \in Procs :
       /\ WF_vars(SettleReadProfile(p))
       /\ WF_vars(SettleDebit(p))
       /\ WF_vars(SettleFinalize(p))
       /\ WF_vars(CancelUpdate(p))
       /\ WF_vars(SweepUpdate(p))
       /\ SF_vars(SweepSelect(p))
  /\ WF_vars(Deliver)
  /\ SF_vars(Tick)

SpecLive == InitSerial /\ [][Next]_vars /\ Fairness

\* ============================================= the serverless variant, api/
\* api/apply-credits.js, api/cancel-credits.js and api/order-webhook.js are
\* the same three routes as serverless functions over the same two tables.
\* apply-credits deducts the amount at once; cancel-credits gives it back; the
\* webhook only marks the transaction completed.

\* Step 6 of api/apply-credits.js, the insert into credit_transactions, is
\* commented out; the table holds what was recorded while it was not: nothing,
\* or a pending transaction of u1 over 1 credit with its price rule and code.
ApiRecorded ==
  {<< >>, <<NewRow(1, "u1", 1, MakeCreditCode(1), 1, 0)>>}

ApiStart(slots, budget) ==
  /\ credits \in OpeningCredits
  /\ opening = credits
  /\ transactions \in ApiRecorded
  /\ priceRules = 1..Len(transactions)
  /\ shopCodes = {MakeCreditCode(n) : n \in 1..Len(transactions)}
  /\ issued = Len(transactions)
  /\ now = 0
  /\ h = [p \in Procs |-> IF p <= slots THEN Idle ELSE Closed]
  /\ out = NoResponse
  /\ faultBudget = budget
  /\ debits = [n \in 1..Len(transactions) |-> 0]

\* Concurrent requests, every database and Shopify call succeeds.
InitApi == ApiStart(MaxProcs, 0)
\* One request at a time, calls may fail.
InitApiFaults == ApiStart(1, MaxFailures)

\* !creditAmount || !userId || !cartItems || cartItems.length === 0
ApiApplyMissingFields(req) ==
  ReserveMissingFields(req) \/ req.cartItems = "empty"

\* apply-credits lines 37-64: validation, profile read, balance check.  At
\* most MaxIssued codes are generated: a call starts only if one is left.
ApiApplyRead(p, req) ==
  /\ CanStart(p)
  /\ issued + Cardinality({q \in Procs : h[q].op = "api_apply"}) < MaxIssued
  /\ IF ApiApplyMissingFields(req)
       THEN /\ out' = Response("api_apply", 400, "Missing required fields")
            /\ UNCHANGED h
     ELSE IF req.userId \notin Accounts
       THEN /\ out' = Response("api_apply", 404, "User not found")
            /\ UNCHANGED h
     ELSE IF Insufficient(credits[req.userId], req.creditAmount)
       THEN /\ out' = [op |-> "api_apply", status |-> 400,
                       message |-> "Insufficient credits",
                       available |-> credits[req.userId],
                       requested |-> req.creditAmount]
            /\ UNCHANGED h
     ELSE /\ out' = NoResponse
          /\ h' = [h EXCEPT ![p] =
                    [op |-> "api_apply", pc |-> "issue",
                     userId |-> req.userId,
                     creditAmount |-> req.creditAmount,
                     profile |-> [credits |-> credits[req.userId]]]]
  /\ UNCHANGED <<credits, opening, transactions, priceRules, shopCodes, issued,
                 now, faultBudget, debits>>

\* Outcomes of lines 66-136: which of the three awaited calls fails, if any.
ApiApplyOutcomes ==
  IF faultBudget > 0
    THEN {"ok", "price_rule_fails", "discount_code_fails", "update_fails"}
    ELSE {"ok"}

\* apply-credits lines 66-172: generate the code, POST price_rules.json, POST
\* discount_codes.json, write profile.credits - creditAmount, answer.  Each
\* failure throws and is answered with 500.  No row is written to
\* credit_transactions (lines 138-154 are comments).
ApiApplyDeduct(p) ==
  /\ At(p, "api_apply", "issue")
  /\ issued' = issued + 1
  /\ \E outcome \in ApiApplyOutcomes :
       LET discountCode == MakeCreditCode(issued + 1)
           priceRuleId == issued + 1
           newBalance == h[p].profile.credits - h[p].creditAmount
       IN  /\ faultBudget' = Fail(outcome = "ok")
           /\ priceRules' = IF outcome = "price_rule_fails" THEN priceRules
                            ELSE priceRules \cup {priceRuleId}
           /\ shopCodes' =
                IF outcome \in {"price_rule_fails", "discount_code_fails"}
                  THEN shopCodes
                  ELSE shopCodes \cup {discountCode}
           /\ credits' = IF outcome = "ok"
                           THEN [credits EXCEPT ![h[p].userId] = newBalance]
                           ELSE credits
           /\ out' =
                IF outcome # "ok"
                  THEN Response("api_apply", 500, "Failed to apply credits")
                  ELSE [op |-> "api_apply", status |-> 200,
                        message |-> "success",
                        discountCode |-> discountCode,
                        discountAmount |-> h[p].creditAmount,
                        newBalance |-> newBalance,
                        priceRuleId |-> priceRuleId]
  /\ h' = [h EXCEPT ![p] = Idle]
  /\ UNCHANGED <<opening, transactions, now, debits>>

\* cancel-credits.js lines 32-49: validation and lookup of the pending row
ApiCancelFind(p, req) ==
  /\ CanStart(p)
  /\ IF req.userId = NoUser \/ req.discountCode = NoCode
       THEN /\ out' = Response("api_cancel", 400,
                               "Missing userId or discountCode")
            /\ UNCHANGED h
     ELSE LET transaction == SinglePendingOf(req.userId, req.discountCode)
          IN  IF transaction.id = 0
                THEN /\ out' = Response("api_cancel", 404,
                                        "Transaction not found")
                     /\ UNCHANGED h
                ELSE /\ out' = NoResponse
                     /\ h' = [h EXCEPT ![p] =
                               [op |-> "api_cancel", pc |-> "profile",
                                userId |-> req.userId,
                                transaction |-> transaction,
                                priceRuleId |-> req.priceRuleId,
                                restoredBalance |-> 0]]
  /\ UNCHANGED <<credits, opening, transactions, priceRules, shopCodes, issued,
                 now, faultBudget, debits>>

\* cancel-credits.js lines 51-62: read the balance, add the amount to it; a
\* failed read throws and is answered with 500
ApiCancelReadProfile(p) ==
  /\ At(p, "api_cancel", "profile")
  /\ \E ok \in Outcomes :
       /\ faultBudget' = Fail(ok)
       /\ IF ok
            THEN /\ h' = [h EXCEPT
                      ![p].pc = "restore",
                      ![p].restoredBalance =
                         credits[h[p].userId] + h[p].transaction.amount]
                 /\ out' = NoResponse
            ELSE /\ h' = [h EXCEPT ![p] = Idle]
                 /\ out' = Response("api_cancel", 500,
                                    "Failed to cancel credits")
  /\ UNCHANGED <<credits, opening, transactions, priceRules, shopCodes, issued,
                 now, debits>>

\* cancel-credits.js lines 64-71: write the restored balance; a failed write
\* throws and is answered with 500
ApiCancelRestore(p) ==
  /\ At(p, "api_cancel", "restore")
  /\ \E ok \in Outcomes :
       /\ faultBudget' = Fail(ok)
       /\ IF ok
            THEN /\ credits' = [credits EXCEPT
                                  ![h[p].userId] = h[p].restoredBalance]
                 /\ h' = [h EXCEPT ![p].pc = "update"]
                 /\ out' = NoResponse
            ELSE /\ UNCHANGED credits
                 /\ h' = [h EXCEPT ![p] = Idle]
                 /\ out' = Response("api_cancel", 500,
                                    "Failed to cancel credits")
  /\ UNCHANGED <<opening, transactions, priceRules, shopCodes, issued, now,
                 debits>>

\* cancel-credits.js lines 73-108: mark the row cancelled by id (a failure is
\* only logged); if the request named a price rule, DELETE it (a failure is
\* only logged); answer 200 with the restored amount and balance.
ApiCancelFinish(p) ==
  /\ At(p, "api_cancel", "update")
  /\ \E outcome \in CancelOutcomes :
       /\ outcome = "delete_fails" => h[p].priceRuleId # NoRule
       /\ faultBudget' = Fail(outcome = "ok")
       /\ IF outcome # "update_fails"
            THEN transactions' = [transactions EXCEPT
                   ![h[p].transaction.id].status = "cancelled",
                   ![h[p].transaction.id].cancelled_at = now]
            ELSE UNCHANGED transactions
       /\ IF h[p].priceRuleId # NoRule /\ outcome # "delete_fails"
            THEN /\ priceRules' = priceRules \ {h[p].priceRuleId}
                 /\ shopCodes' = {c \in shopCodes :
                                    c.serial # h[p].priceRuleId}
            ELSE UNCHANGED <<priceRules, shopCodes>>
  /\ h' = [h EXCEPT ![p] = Idle]
  /\ out' = [op |-> "api_cancel", status |-> 200, message |-> "success",
             restoredAmount |-> h[p].transaction.amount,
             newBalance |-> h[p].restoredBalance]
  /\ UNCHANGED <<credits, opening, issued, now, debits>>

\* The answer of the api/ webhook, with the code the event was about.
ApiWebhookResponse(st, m, code) ==
  [op |-> "api_settle", status |-> st, message |-> m, discountCode |-> code]

\* order-webhook.js lines 41-78: signature check over JSON.stringify(req.body),
\* code extraction, lookup of the pending row
ApiWebhookFind(p, body, hmacHeader) ==
  /\ CanStart(p)
  /\ LET order == JSONparse(body)
         rawBody == JSONstringify(order)
         hash == Hmac(Secret, rawBody)
     IN
     IF hash # hmacHeader
       THEN /\ out' = ApiWebhookResponse(401, "Unauthorized", NoCode)
            /\ UNCHANGED h
     ELSE IF FindCreditDiscount(order.discount_codes) = NoCode
       THEN /\ out' = ApiWebhookResponse(200, "No credits used", NoCode)
            /\ UNCHANGED h
     ELSE LET discountCode == FindCreditDiscount(order.discount_codes)
              transaction == SinglePending(discountCode)
          IN  IF transaction.id = 0
                THEN /\ out' = ApiWebhookResponse(200,
                                 "Transaction already processed", discountCode)
                     /\ UNCHANGED h
                ELSE /\ out' = NoResponse
                     /\ h' = [h EXCEPT ![p] =
                               [op |-> "api_settle", pc |-> "finalize",
                                order |-> order, transaction |-> transaction]]
  /\ UNCHANGED <<credits, opening, transactions, priceRules, shopCodes, issued,
                 now, faultBudget, debits>>

\* order-webhook.js lines 80-111: mark the row completed by id; a failed
\* update throws and is answered with 500.  The balance is not touched.
ApiWebhookFinalize(p) ==
  /\ At(p, "api_settle", "finalize")
  /\ \E ok \in Outcomes :
       /\ faultBudget' = Fail(ok)
       /\ IF ok
            THEN /\ transactions' = [transactions EXCEPT
                      ![h[p].transaction.id].status = "completed",
                      ![h[p].transaction.id].completed_at = now,
                      ![h[p].transaction.id].order_id =
                                               toString(h[p].order.id),
                      ![h[p].transaction.id].order_number =
                                               OrderNumber(h[p].order.id)]
                 /\ out' = [op |-> "api_settle", status |-> 200,
                            message |-> "Credits finalized",
                            discountCode |-> h[p].transaction.discount_code,
                            orderId |-> h[p].order.id,
                            transactionId |-> h[p].transaction.id]
            ELSE /\ UNCHANGED transactions
                 /\ out' = ApiWebhookResponse(500, "Webhook processing failed",
                              h[p].transaction.discount_code)
  /\ h' = [h EXCEPT ![p] = Idle]
  /\ UNCHANGED <<credits, opening, priceRules, shopCodes, issued, now, debits>>

NextApi ==
  \/ \E p \in Procs :
       \/ \E req \in ReserveRequests : ApiApplyRead(p, req)
       \/ ApiApplyDeduct(p)
       \/ \E req \in CancelRequests : ApiCancelFind(p, req)
       \/ ApiCancelReadProfile(p)
       \/ ApiCancelRestore(p)
       \/ ApiCancelFinish(p)
       \/ \E req \in WebhookRequests :
               ApiWebhookFind(p, req.rawBody, req.hmacHeader)
       \/ ApiWebhookFinalize(p)
  \/ Deliver

SpecApi == InitApi /\ [][NextApi]_vars
SpecApiFaults == InitApiFaults /\ [][NextApi]_vars

\* =================================================================== claims
Quiescent == \A p \in Procs : ~InFlight(p)

\* The row a discount code belongs to (codes are unique per row); 0 if none.
RowOfCode(code) ==
  IF \E i \in RowIds : transactions[i].discount_code = code
    THEN CHOOSE i \in RowIds : transactions[i].discount_code = code
    ELSE 0

\* A delivery signed with the shared secret over the exact bytes it carries.
Authentic(req) == req.hmacHeader = Hmac(Secret, req.rawBody)
\* A delivery whose signature the webhook's check accepts.
Verifies(req) ==
  req.hmacHeader = Hmac(Secret, JSONstringify(JSONparse(req.rawBody)))

\* The steps by which a handler writes a terminal state and answers.
CancelWrites(p) ==
  h[p].op = "cancel" /\ h[p].pc = "update" /\ h'[p] = Idle
SettleWrites(p) ==
  h[p].op = "settle" /\ h[p].pc = "finalize" /\ h'[p] = Idle

\* A cancelled row that was not old enough for the sweeper when it was
\* cancelled: cancel-credits cancelled it.
CancelledByCancel(row) ==
  /\ row.status = "cancelled"
  /\ ~(row.created_at < row.cancelled_at - SweepAgeHours)

RECURSIVE DebitedTotal(_, _)
\* The sum, over the first n rows owned by account a, of amount * debits.
DebitedTotal(a, n) ==
  IF n = 0 THEN 0
  ELSE DebitedTotal(a, n - 1)
         + (IF transactions[n].user_id = a
              THEN transactions[n].amount * debits[n] ELSE 0)

\* C1: every account's stored balance is >= 0 in every reachable state, also
\* when each reservation is settled at most once.
BalanceNonNegative ==
  (\A r \in RowIds : debits[r] <= 1) => \A a \in Accounts : credits[a] >= 0

\* C2: when the only reservation has been settled by deliveries of the same
\* event, however they overlap, and every handler has finished, the account
\* has been debited by the reservation amount exactly once.
DuplicateSettleDebitsOnce ==
  (/\ Quiescent
   /\ Len(transactions) = 1
   /\ transactions[1].status = "completed")
    => credits[transactions[1].user_id]
         = opening[transactions[1].user_id] - transactions[1].amount

\* C3: a delivery of an event that was processed before (so its signature
\* passes the check again), for a reservation that is already completed,
\* answers "Transaction already processed", ends the handler, and changes
\* neither a balance nor a reservation.
RedeliveryIsNoOp ==
  [][\A p \in Procs : CanStart(p) =>
       \A req \in WebhookRequests :
         LET code == FindCreditDiscount(JSONparse(req.rawBody).discount_codes)
             r == RowOfCode(code)
         IN  (/\ Verifies(req)
              /\ r # 0
              /\ transactions[r].status = "completed"
              /\ SettleFind(p, req.rawBody, req.hmacHeader))
               => /\ out' = SettleResponse(200,
                               "Transaction already processed", code)
                  /\ UNCHANGED <<credits, transactions, h>>]_vars

\* C3 witness: a delivery was answered "already processed" for a reservation
\* that is completed and was debited once.
RedeliveryWitness ==
  /\ out.op = "settle"
  /\ out.message = "Transaction already processed"
  /\ RowOfCode(out.discountCode) # 0
  /\ transactions[RowOfCode(out.discountCode)].status = "completed"
  /\ debits[RowOfCode(out.discountCode)] = 1

\* C4: a reservation that is completed or cancelled keeps its state in every
\* step.
TerminalIsFinal ==
  [][\A r \in RowIds :
       transactions[r].status # "pending"
         => transactions'[r].status = transactions[r].status]_vars

\* C5: once every handler has finished, a reservation that at most one
\* settlement debited is pending, or completed and debited once, or cancelled
\* and not debited.
ExactlyOneWins ==
  Quiescent =>
    \A r \in RowIds :
      debits[r] <= 1 =>
        \/ transactions[r].status = "pending" /\ debits[r] = 0
        \/ transactions[r].status = "completed" /\ debits[r] = 1
        \/ transactions[r].status = "cancelled" /\ debits[r] = 0

\* C6: cancel-credits writes "cancelled" and answers only for a reservation
\* the webhook has not completed, and the webhook writes "completed" and
\* answers only for a reservation cancel-credits has not cancelled.
AtMostOneReports ==
  [][\A p \in Procs :
       /\ CancelWrites(p)
            => transactions[h[p].transaction.id].status # "completed"
       /\ SettleWrites(p)
            => ~CancelledByCancel(transactions[h[p].transaction.id])]_vars

\* C7: when no handler is running, no reservation is pending with its debit
\* applied, and no reservation was debited twice.
NoDebitWithoutCompletion ==
  Quiescent =>
    \A r \in RowIds :
      /\ transactions[r].status = "pending" => debits[r] = 0
      /\ debits[r] <= 1

\* C8: the settlement of a reservation not debited before, whose debit would
\* make the balance negative, writes no balance and ends with an error.
NegativeDebitRefused ==
  [][\A p \in Procs :
       (/\ At(p, "settle", "debit")
        /\ h[p].newBalance < 0
        /\ debits[h[p].transaction.id] = 0
        /\ h'[p] # h[p])
         => /\ credits' = credits
            /\ h'[p] = Idle
            /\ out'.status >= 400]_vars

\* C9: once every handler has finished and no reservation was debited twice,
\* every account's balance is its opening balance minus the amounts of all
\* debits made for its reservations.
NoDebitLost ==
  (Quiescent /\ \A r \in RowIds : debits[r] <= 1)
    => \A a \in Accounts :
         credits[a] = opening[a] - DebitedTotal(a, Len(transactions))

\* C10: apply-credits for more than the account's balance answers 400
\* "Insufficient credits" and changes no balance, no reservation and nothing
\* in Shopify.
InsufficientReserveRejected ==
  [][\A p \in Procs : CanStart(p) =>
       \A req \in ReserveRequests :
         (/\ ~ReserveMissingFields(req)
          /\ req.userId \in Accounts
          /\ req.creditAmount > credits[req.userId]
          /\ Reserve(p, req))
           => /\ out'.status = 400
              /\ out'.message = "Insufficient credits"
              /\ UNCHANGED <<credits, transactions, priceRules, shopCodes, h>>
     ]_vars

\* C10 witness: a request for more than the balance was answered
\* "Insufficient credits".
InsufficientWitness ==
  /\ out.op = "reserve"
  /\ out.message = "Insufficient credits"
  /\ out.requested > out.available
  /\ \E a \in Accounts : credits[a] = out.available

\* C11: an apply-credits call that answers success leaves every balance as it
\* was and adds exactly one reservation: pending, owned by the caller, for the
\* requested amount, with the discount code and the price rule id of the
\* answer; the reservations that existed are unchanged.
ReserveOnlyHolds ==
  [][\A p \in Procs : CanStart(p) =>
       \A req \in ReserveRequests :
         (Reserve(p, req) /\ out'.status = 200)
           => /\ credits' = credits
              /\ Len(transactions') = Len(transactions) + 1
              /\ \A r \in RowIds : transactions'[r] = transactions[r]
              /\ \A r \in RowIds :
                   transactions[r].discount_code # out'.discountCode
              /\ LET row == transactions'[Len(transactions')]
                 IN  /\ row.status = "pending"
                     /\ row.user_id = req.userId
                     /\ row.amount = req.creditAmount
                     /\ row.discount_code = out'.discountCode
                     /\ row.price_rule_id = <<"str", out'.priceRuleId>>
                     /\ out'.discountAmount = req.creditAmount
                     /\ out'.newBalance = credits[req.userId]]_vars

\* C11 witness: a reservation was answered with success; its row is the
\* newest one, pending, and its owner's balance is the opening balance.
ReserveWitness ==
  /\ out.op = "reserve"
  /\ out.status = 200
  /\ Len(transactions) > 0
  /\ LET row == transactions[Len(transactions)]
     IN  /\ row.discount_code = out.discountCode
         /\ row.status = "pending"
         /\ row.amount = out.discountAmount
         /\ row.amount > 0
         /\ credits[row.user_id] = opening[row.user_id]

\* A delivery Shopify signed, naming the code of a reservation in state st.
SignedFor(req, st) ==
  LET r == RowOfCode(FindCreditDiscount(JSONparse(req.rawBody).discount_codes))
  IN  Authentic(req) /\ r # 0 /\ transactions[r].status = st

\* The three steps of a settlement that runs alone: the balance read changes
\* nothing; the debit lowers the owner's balance by the reservation's amount
\* and nothing else; the last step marks that reservation completed with the
\* order's id and number and the time, and answers 200.
SettleStepsAlone ==
  \A p \in Procs :
    LET t == h[p].transaction
    IN  /\ (At(p, "settle", "profile") /\ h'[p] # h[p])
             => /\ h'[p].pc = "debit"
                /\ UNCHANGED <<credits, transactions>>
        /\ (At(p, "settle", "debit") /\ h'[p] # h[p])
             => /\ credits' = [credits EXCEPT ![t.user_id] = @ - t.amount]
                /\ transactions' = transactions
                /\ transactions[t.id] = t
        /\ (At(p, "settle", "finalize") /\ h'[p] # h[p])
             => /\ credits' = credits
                /\ debits[t.id] = 1
                /\ transactions' = [transactions EXCEPT ![t.id] =
                     [t EXCEPT !.status = "completed",
                               !.completed_at = now,
                               !.order_id = <<"str", h[p].order.id>>,
                               !.order_number = 1000 + h[p].order.id]]
                /\ out'.status = 200

\* With one request at a time, every settlement the signature check lets
\* through debits once and completes the reservation.
AcceptedSettleDebitsAndCompletes == [][SettleStepsAlone]_vars

\* C12: with one request at a time, a delivery Shopify signed that names the
\* code of a pending reservation is taken up for settlement, and the
\* settlement lowers the owner's balance by exactly the reservation's amount,
\* marks the reservation completed with the order's id, number and the time,
\* and changes no other balance or reservation.
SignedSettleDebitsAndCompletes ==
  [][/\ \A p \in Procs : CanStart(p) =>
          \A req \in WebhookRequests :
            (SignedFor(req, "pending")
             /\ SettleFind(p, req.rawBody, req.hmacHeader))
              => h'[p].pc = "profile"
     /\ SettleStepsAlone]_vars

\* With any interleaving, a delivery that passes the signature check and
\* names the code of a cancelled reservation is answered "Transaction
\* already processed" and changes nothing.
AcceptedSettleAfterCancelIsNoOp ==
  [][\A p \in Procs : CanStart(p) =>
       \A req \in WebhookRequests :
         LET code == FindCreditDiscount(JSONparse(req.rawBody).discount_codes)
             r == RowOfCode(code)
         IN  (/\ Verifies(req)
              /\ r # 0
              /\ transactions[r].status = "cancelled"
              /\ SettleFind(p, req.rawBody, req.hmacHeader))
               => /\ out' = SettleResponse(200,
                               "Transaction already processed", code)
                  /\ UNCHANGED <<credits, transactions, h>>]_vars

\* C13: a delivery Shopify signed that names the code of a reservation which
\* is already cancelled is answered "Transaction already processed", debits
\* nothing and leaves the reservation cancelled.
SignedSettleAfterCancelIsNoOp ==
  [][\A p \in Procs : CanStart(p) =>
       \A req \in WebhookRequests :
         (SignedFor(req, "cancelled")
          /\ SettleFind(p, req.rawBody, req.hmacHeader))
           => /\ out'.status = 200
              /\ out'.message = "Transaction already processed"
              /\ UNCHANGED <<credits, transactions, h>>]_vars

\* A delivery whose signature header is not the keyed hash of the bytes it
\* carries is answered 401 and changes nothing, provided its bytes are the
\* compact text of its order.
UnsignedCompactRejected ==
  [][\A p \in Procs : CanStart(p) =>
       \A req \in WebhookRequests :
         (/\ ~Authentic(req)
          /\ req.rawBody.form = "compact"
          /\ SettleFind(p, req.rawBody, req.hmacHeader))
           => /\ out' = SettleResponse(401, "Unauthorized", NoCode)
              /\ UNCHANGED <<credits, transactions, h>>]_vars

\* C14: a delivery whose signature header is missing or is not the keyed hash
\* of the bytes it carries is answered 401 and changes no balance and no
\* reservation, neither in that step nor by a settlement it starts.
UnsignedRejected ==
  [][\A p \in Procs : CanStart(p) =>
       \A req \in WebhookRequests :
         (~Authentic(req) /\ SettleFind(p, req.rawBody, req.hmacHeader))
           => /\ out'.status = 401
              /\ UNCHANGED <<credits, transactions, h>>]_vars

\* A delivery that passes the signature check and carries no code starting
\* with CREDIT- is answered 200 "No credits used" and changes nothing.
AcceptedWithoutCreditCodeIsNoOp ==
  [][\A p \in Procs : CanStart(p) =>
       \A req \in WebhookRequests :
         (/\ Verifies(req)
          /\ \A i \in DOMAIN JSONparse(req.rawBody).discount_codes :
               JSONparse(req.rawBody).discount_codes[i].prefix # "CREDIT-"
          /\ SettleFind(p, req.rawBody, req.hmacHeader))
           => /\ out' = SettleResponse(200, "No credits used", NoCode)
              /\ UNCHANGED <<credits, transactions, h>>]_vars

\* C15: a delivery Shopify signed that carries no code starting with CREDIT-
\* is answered 200 "No credits used" and changes no balance and no
\* reservation.
SignedWithoutCreditCodeIsNoOp ==
  [][\A p \in Procs : CanStart(p) =>
       \A req \in WebhookRequests :
         (/\ Authentic(req)
          /\ \A i \in DOMAIN JSONparse(req.rawBody).discount_codes :
               JSONparse(req.rawBody).discount_codes[i].prefix # "CREDIT-"
          /\ SettleFind(p, req.rawBody, req.hmacHeader))
           => /\ out'.status = 200
              /\ out'.message = "No credits used"
              /\ UNCHANGED <<credits, transactions, h>>]_vars

\* C16: the step of cancel-credits that writes "cancelled" for the pending
\* reservation it found answers 200 (with restoredAmount), never an error.
CancelReportsSuccess ==
  [][\A p \in Procs :
       (At(p, "cancel", "update") /\ h'[p] # h[p]) => out'.status = 200]_vars

\* C17: a step that changes a balance is the balance write of a settlement;
\* no step of cancel-credits or cleanup-pending changes a balance.
OnlySettleWritesBalance ==
  [][/\ credits' # credits
          => \E p \in Procs : /\ At(p, "settle", "debit")
                               /\ h'[p].pc = "finalize"
     /\ \A p \in Procs :
          (/\ h'[p] # h[p]
           /\ h[p].op \in {"cancel", "sweep"} \/ h'[p].op \in {"cancel", "sweep"})
            => credits' = credits
     /\ out'.op \in {"cancel", "sweep"} => credits' = credits]_vars

\* A cancelled row that was old enough for the sweeper when it was cancelled.
OldWhenCancelled(row) ==
  /\ row.status = "cancelled"
  /\ row.created_at < row.cancelled_at - SweepAgeHours

\* C17 witness: cancel-credits cancelled one reservation, a cleanup-pending
\* that has just answered found another one to cancel, and every balance is
\* the opening balance.
CancelSweepWitness ==
  /\ out.op = "sweep"
  /\ out.transactions > 0
  /\ \E r \in RowIds : CancelledByCancel(transactions[r])
  /\ \E r \in RowIds : /\ OldWhenCancelled(transactions[r])
                        /\ transactions[r].cancelled_at = now
  /\ credits = opening

\* C18: cancel-credits with a user id and a discount code for which no
\* pending reservation of that user with that code exists answers 404
\* "Transaction not found" and changes no balance and no reservation.
CancelNotFound ==
  [][\A p \in Procs : CanStart(p) =>
       \A req \in CancelRequests :
         (/\ req.userId # NoUser
          /\ req.discountCode # NoCode
          /\ ~\E r \in RowIds :
                /\ transactions[r].user_id = req.userId
                /\ transactions[r].discount_code = req.discountCode
                /\ transactions[r].status = "pending"
          /\ CancelFind(p, req))
           => /\ out' = Response("cancel", 404, "Transaction not found")
              /\ UNCHANGED <<credits, transactions, h>>]_vars

\* C18 witness: cancel-credits answered 404 when every code a request can
\* name belonged to a reservation, one of them completed, one pending.
CancelNotFoundWitness ==
  /\ out = Response("cancel", 404, "Transaction not found")
  /\ \A c \in CreditCodes : RowOfCode(c) # 0
  /\ \E r \in RowIds : transactions[r].status = "completed"
  /\ \E r \in RowIds : transactions[r].status = "pending"

\* C19: the update of cleanup-pending cancels every reservation that is
\* pending and was created more than 24 hours before, and leaves every
\* reservation created less than 24 hours before as it is; a sweep that ends
\* without an update found no such pending reservation.
SweepCancelsOldOnly ==
  [][\A p \in Procs :
       /\ (At(p, "sweep", "update") /\ h'[p] # h[p])
            => \A r \in RowIds :
                 /\ (/\ transactions[r].status = "pending"
                     /\ transactions[r].created_at < now - SweepAgeHours)
                      => transactions'[r] =
                           [transactions[r] EXCEPT !.status = "cancelled",
                                                   !.cancelled_at = now]
                 /\ transactions[r].created_at > now - SweepAgeHours
                      => transactions'[r] = transactions[r]
       /\ (CanStart(p) /\ SweepSelect(p) /\ out'.op = "sweep")
            => /\ transactions' = transactions
               /\ \A r \in RowIds :
                    transactions[r].status = "pending"
                      => ~(transactions[r].created_at < now - SweepAgeHours)
     ]_vars

\* C19 witness: a sweep has just cancelled a reservation older than 24 hours
\* and left a younger pending one alone.
SweepWitness ==
  /\ out.op = "sweep"
  /\ out.transactions > 0
  /\ \E r \in RowIds : /\ OldWhenCancelled(transactions[r])
                        /\ transactions[r].cancelled_at = now
  /\ \E r \in RowIds : /\ transactions[r].status = "pending"
                        /\ transactions[r].created_at > now - SweepAgeHours

\* C20: the update of cleanup-pending leaves every reservation that is not
\* pending at that moment exactly as it is, state and timestamps.
SweepLeavesTerminalRows ==
  [][\A p \in Procs :
       (At(p, "sweep", "update") /\ h'[p] # h[p])
         => \A r \in RowIds :
              transactions[r].status # "pending"
                => transactions'[r] = transactions[r]]_vars

\* C20 witness: a sweep selected an old pending reservation, a settlement
\* completed it before the sweep's update, and the update cancelled nothing.
SweepRaceWitness ==
  /\ out.op = "sweep"
  /\ out.transactions > 0
  /\ \A r \in RowIds : transactions[r].cancelled_at # now
  /\ \E r \in RowIds : /\ transactions[r].status = "completed"
                        /\ transactions[r].completed_at = now
                        /\ transactions[r].created_at < now - SweepAgeHours

\* C21: apply-credits for an amount that is not > 0, or with an empty cart,
\* answers 400 and creates no price rule, no discount code and no
\* reservation.
ReserveValidatesInput ==
  [][\A p \in Procs : CanStart(p) =>
       \A req \in ReserveRequests \cup NegativeRequests :
         (/\ req.creditAmount <= 0 \/ req.cartItems = "empty"
          /\ Reserve(p, req))
           => /\ out'.status = 400
              /\ UNCHANGED <<priceRules, shopCodes, transactions>>]_vars

\* apply-credits for amount 0 answers 400 and creates nothing.
ReserveRejectsZero ==
  [][\A p \in Procs : CanStart(p) =>
       \A req \in ReserveRequests \cup NegativeRequests :
         (req.creditAmount = 0 /\ Reserve(p, req))
           => /\ out'.status = 400
              /\ UNCHANGED <<priceRules, shopCodes, transactions>>]_vars

\* No reservation is for an amount that is not > 0 (one is: -1 passes the
\* validation and the balance check).
NoNegativeReservation ==
  \A r \in RowIds : transactions[r].amount > 0

\* apply-credits with an empty cart answers 400 (it does not: [] is truthy).
ReserveRejectsEmptyCart ==
  [][\A p \in Procs : CanStart(p) =>
       \A req \in ReserveRequests :
         (req.cartItems = "empty" /\ Reserve(p, req))
           => out'.status = 400]_vars

\* C22: when the price rule or the discount code cannot be created,
\* apply-credits answers 500 "Failed to apply credits", inserts no
\* reservation and changes no balance.
IssuerFailurePersistsNothing ==
  [][\A p \in Procs : CanStart(p) =>
       \A req \in ReserveRequests \cup NegativeRequests :
         (/\ Reserve(p, req)
          /\ faultBudget' # faultBudget
          /\ shopCodes' = shopCodes)
           => /\ out' = Response("reserve", 500, "Failed to apply credits")
              /\ UNCHANGED <<credits, transactions>>]_vars

\* The discount code could not be created: the caller got the issuer error,
\* no reservation exists and no balance moved.
IssuerFailureWitness ==
  /\ out = Response("reserve", 500, "Failed to apply credits")
  /\ faultBudget < MaxFailures
  /\ priceRules # {}
  /\ shopCodes = {}
  /\ transactions = << >>
  /\ credits = opening

\* C23: every price rule apply-credits created has its reservation: a call
\* that failed after creating the rule deleted it again.
NoOrphanedInstrument ==
  \A rule \in priceRules :
    \E r \in RowIds : transactions[r].price_rule_id = toString(rule)

\* C25: an apply-credits that answered success persisted exactly one pending
\* reservation with the discount code it returned.
SuccessMeansPersisted ==
  (out.op = "reserve" /\ out.status = 200)
    => Cardinality({r \in RowIds :
                      /\ transactions[r].discount_code = out.discountCode
                      /\ transactions[r].status = "pending"}) = 1

\* Without a failing insert every success has its row (the service taking
\* one request at a time, nothing failing).
SuccessMeansPersistedWithoutFaults ==
  faultBudget = MaxFailures => SuccessMeansPersisted

\* C26: when cancel-credits' DELETE of the price rule fails, the reservation
\* is cancelled all the same and the caller gets the answer it gets when the
\* DELETE succeeds.
DeleteFailureNotPropagated ==
  [][\A p \in Procs :
       (/\ At(p, "cancel", "update")
        /\ CancelUpdate(p)
        /\ faultBudget' # faultBudget
        /\ transactions' # transactions)
         => /\ transactions'[h[p].transaction.id].status = "cancelled"
            /\ priceRules' = priceRules
            /\ out' = CancelAnswer("ok")]_vars

\* The only failure so far was the DELETE of price rule 1: the rule is still
\* there, its reservation is cancelled, the caller has its answer.
DeleteFailureWitness ==
  /\ out.op = "cancel"
  /\ faultBudget < MaxFailures
  /\ issued = 1
  /\ Len(transactions) = 1
  /\ transactions[1].status = "cancelled"
  /\ 1 \in priceRules
  /\ credits = opening
  /\ now = 0

\* C27: the number cleanup-pending answers with is the number of rows its own
\* update moved from pending to cancelled.
SweepCountsOwnCancellations ==
  [][\A p \in Procs :
       (At(p, "sweep", "update") /\ SweepUpdate(p))
         => out'.transactions =
              Cardinality({r \in RowIds :
                             /\ transactions[r].status = "pending"
                             /\ transactions'[r].status = "cancelled"})]_vars

\* C28: apply-credits for an amount between 1 and the stored balance succeeds
\* whatever is already reserved on the account: it answers 200 and adds a
\* pending row for the amount.
ReserveIgnoresPending ==
  [][\A p \in Procs : CanStart(p) =>
       \A req \in ReserveRequests \cup NegativeRequests :
         (/\ req.userId \in Accounts
          /\ req.cartItems # "missing"
          /\ 0 < req.creditAmount
          /\ req.creditAmount <= credits[req.userId]
          /\ Reserve(p, req))
           => /\ out'.status = 200
              /\ Len(transactions') = Len(transactions) + 1
              /\ transactions'[Len(transactions')].status = "pending"
              /\ transactions'[Len(transactions')].amount = req.creditAmount
              /\ transactions'[Len(transactions')].user_id = req.userId]_vars

\* An apply-credits has just succeeded and the account's pending amounts add
\* up to more than its balance.
OverReservedWitness ==
  /\ out.op = "reserve"
  /\ out.status = 200
  /\ \E u \in Accounts :
       /\ \A r \in RowIds : transactions[r].amount > 0
       /\ PendingSum({u}, Len(transactions)) > credits[u]

\* C24: with cleanup-pending called again and again and the clock advancing,
\* a pending reservation does not stay pending for ever: it ends completed or
\* cancelled.  (Stated for the reservations made while the clock can still
\* advance by a day.)
PendingEventuallyReleased ==
  \A r \in 1..MaxIssued :
    (/\ r \in RowIds
     /\ transactions[r].status = "pending"
     /\ transactions[r].created_at + TickHours <= MaxTime)
      ~> (/\ r \in RowIds
          /\ transactions[r].status \in {"completed", "cancelled"})

\* Every reservation made has been released by cleanup-pending, none by an
\* order or by cancel-credits.
AllReleasedWitness ==
  /\ out.op = "sweep"
  /\ out.transactions = Len(transactions)
  /\ RowIds # {}
  /\ \A r \in RowIds : /\ transactions[r].status = "cancelled"
                        /\ transactions[r].cancelled_at
                             > transactions[r].created_at + SweepAgeHours

\* A step in which api/apply-credits answers success from slot p.
ApiApplySucceeds(p) ==
  /\ At(p, "api_apply", "issue")
  /\ ApiApplyDeduct(p)
  /\ out'.status = 200

\* The rows, after the step, that cancel-credits would look at for a user and
\* a code: pending, of that user, with that code.
PendingOfAfter(userId, code) ==
  {r \in 1..Len(transactions') :
     /\ transactions'[r].user_id = userId
     /\ transactions'[r].discount_code = code
     /\ transactions'[r].status = "pending"}

\* A successful api/apply-credits writes the balance it read less the amount.
ApiApplyDeducts ==
  [][\A p \in Procs :
       ApiApplySucceeds(p)
         => credits'[h[p].userId] = h[p].profile.credits - h[p].creditAmount]_vars

\* C29: a successful api/apply-credits deducts the amount from the balance
\* and leaves a pending credit transaction of the user, over the amount, with
\* the discount code it returns.
ApiApplyRecordsPending ==
  [][\A p \in Procs :
       ApiApplySucceeds(p)
         => /\ credits'[h[p].userId]
                 = h[p].profile.credits - h[p].creditAmount
            /\ \E r \in PendingOfAfter(h[p].userId, out'.discountCode) :
                 transactions'[r].amount = h[p].creditAmount]_vars

\* C30: after a successful api/apply-credits, cancel-credits with the same
\* user and the returned code finds exactly one transaction, and the balance
\* plus that transaction's amount (what cancel-credits writes back) is the
\* balance apply-credits started from.
ApiRoundTrip ==
  [][\A p \in Procs :
       ApiApplySucceeds(p)
         => LET found == PendingOfAfter(h[p].userId, out'.discountCode)
            IN  /\ Cardinality(found) = 1
                /\ \A r \in found :
                     credits'[h[p].userId] + transactions'[r].amount
                       = h[p].profile.credits]_vars

\* cancel-credits gives back what a recorded transaction holds: the balance
\* it writes is the balance it read plus the transaction's amount.
ApiCancelRestoresAmount ==
  [][\A p \in Procs :
       (At(p, "api_cancel", "profile") /\ ApiCancelReadProfile(p))
         => h'[p].restoredBalance
              = credits[h[p].userId] + h[p].transaction.amount]_vars

\* C32: a reservation is completed only if a settlement wrote its debit to
\* the account: when the webhook cannot read the profile, or its balance
\* write fails, it does not mark the reservation completed.
CompletedOnlyIfDebited ==
  \A r \in RowIds :
    transactions[r].status = "completed" => debits[r] >= 1

\* As long as no call has failed, every completed reservation was debited.
CompletedOnlyIfDebitedWithoutFaults ==
  faultBudget = MaxFailures => CompletedOnlyIfDebited

\* C33: a reservation has an order id and a completion timestamp exactly
\* when it is completed, a cancellation timestamp exactly when it is
\* cancelled, and never both timestamps.
TimestampsMatchStatus ==
  \A r \in RowIds :
    /\ (transactions[r].order_id # NoOrder
         /\ transactions[r].completed_at # NoTime)
          <=> transactions[r].status = "completed"
    /\ transactions[r].cancelled_at # NoTime
          <=> transactions[r].status = "cancelled"
    /\ ~(/\ transactions[r].completed_at # NoTime
          /\ transactions[r].cancelled_at # NoTime)

\* Sum of the amounts of the rows of user u, among the first n rows, that are
\* not completed.
RECURSIVE NotCompletedSum(_, _)
NotCompletedSum(u, n) ==
  IF n = 0 THEN 0
  ELSE NotCompletedSum(u, n - 1)
         + (IF /\ transactions[n].user_id = u
               /\ transactions[n].status # "completed"
              THEN transactions[n].amount ELSE 0)

\* C31: api/cancel-credits gives a transaction's amount back at most once
\* and never for a transaction that ends completed: once every handler has
\* finished, no balance exceeds the opening balance by more than the amounts
\* of the account's transactions that are not completed.
ApiCancelCreditsOnce ==
  Quiescent =>
    \A u \in Accounts :
      credits[u] <= opening[u] + NotCompletedSum(u, Len(transactions))

\* The same while every call has succeeded so far (one request at a time).
ApiCancelCreditsOnceWithoutFaults ==
  faultBudget = MaxFailures => ApiCancelCreditsOnce

\* Sum of the amounts of the rows of user u among the first n rows.
RECURSIVE AmountSum(_, _)
AmountSum(u, n) ==
  IF n = 0 THEN 0
  ELSE AmountSum(u, n - 1)
         + (IF transactions[n].user_id = u THEN transactions[n].amount ELSE 0)

\* No transaction's amount is given back twice: no balance exceeds the
\* opening balance by more than the amounts of the account's transactions.
\* (Two interleaved cancel-credits for one transaction break it.)
ApiCancelNoDoubleRestore ==
  \A u \in Accounts :
    credits[u] <= opening[u] + AmountSum(u, Len(transactions))
====
